---- MODULE Spec2Model ----
(* Polling, caching and teardown behaviour of the SCOUT frontend.            *)
(*                                                                         *)
(* The pages keep their request state in @tanstack/react-query (v4 call    *)
(* signatures: useQuery(key, fn, options), mutation.isLoading).  The query *)
(* cache is modelled for the two keys the pages poll: ['session', id] and  *)
(* ['researchJob', jobId].  The backend and the network are environment:   *)
(* a request captures the backend's answer when it is issued and its       *)
(* response arrives, or fails, at any later moment.  Time is not measured: *)
(* an armed timer may fire whenever it is armed.  The browser window is    *)
(* taken to be focused and online throughout.                              *)
EXTENDS Integers, Sequences, FiniteSets, TLC

\* ------------------------------------------------------------------ bounds
\* Retried attempts per fetch (the QueryClient's retry option is not set by
\* any hook; a failed attempt may also give up earlier, see FetchError).
MaxRetries == 1
\* The poll-tick counter saturates here.
TickCap == 3
\* Research jobs the backend creates in one run.
MaxJobs == 2
\* Network calls for one job key that may be outstanding together.
MaxCalls == 2
\* handleStart invocations of one Investigation page awaiting refetch().
MaxAwait == 1

\* Log entries the backend writes for one session in one run.
MaxLogs == 3
\* Sessions the backend lists, and the distinct updated_at stamps they carry.
MaxSessions == 3
\* Companies the Compare selector offers.
MaxOptions == 4
\* Companies in the list the chart views are computed from.
MaxCompanies == 3
\* Consecutive computations of one chart view that are counted.
MaxRuns == 2

\* ------------------------------------------------------------- constants
\* useSession's refetchInterval while the snapshot is RUNNING (ms).
SessionPollMs == 4000

\* Entries of the scripted log of the Investigation page.
ScriptedLen == 5

JobStatuses == {"pending", "running", "completed", "failed"}
JobTerminal == {"completed", "failed"}

Statuses == {"PENDING", "RUNNING", "COMPLETED", "FAILED"}
Terminal == {"COMPLETED", "FAILED"}
NonTerminal == {"PENDING", "RUNNING"}
NoData == "none"

VARIABLES
    route,              \* page mounted by the router: "home" | "session" | "other"
    mode,               \* environment: "free" | "script" (the scripted three-answer run)
    srv,                \* backend's status of the session; "NONE" before start
    startReq,           \* start mutation of the home page: "none" | "inflight"
    startOwner,         \* the page instance that issued the start is still mounted
    unhandled,          \* a promise rejection nobody caught has been raised
    sessData,           \* query cache ['session', id]: status of the cached snapshot
    sessErr,            \* query cache: state.status = 'error' (result.error is set)
    sessNet,            \* network call of the query: "none" | "inflight" | "retrywait"
    sessNetVal,         \* snapshot status carried by the call in flight
    sessOrigin,         \* what issued the fetch in flight: "mount" | "tick"
    sessFail,           \* failureCount of the fetch in flight
    sessRetryCancelled, \* retryer.cancelRetry() was called (last observer left)
    sessTimer,          \* the observer's refetch interval is armed
    refreshReq,         \* refresh mutation: "none" | "inflight"
    refreshVal,         \* snapshot status carried by the refresh response
    tickGets,           \* GET session calls issued by poll ticks (saturating)
    \* ---- Investigation / ResearchLab (legacy research jobs)
    apiShape,           \* field carrying the job's id in backend responses: "job_id" | "id"
    jobsCreated,        \* jobs the backend has created
    jobSrv,             \* backend's status of the tracked job
    lstart,             \* start mutation of the legacy page: "none" | "inflight"
    lstartOwner,        \* the page instance that issued the start is still mounted
    hsRef,              \* handleStart invocations awaiting `await refetch()`
    jobId,              \* page state jobId: 0 = null, -1 = undefined, else the id
    isAnimating,        \* Investigation page state
    logTimer,           \* Investigation: the scripted-log interval is running
    logIdx,             \* Investigation: idx of the scripted-log closure
    jobTimer,           \* the page's job polling interval is running
    jobData,            \* query cache ['researchJob', jobId]: status of the cached job
    jobErr,             \* query cache: the query is in error
    jobNet,             \* the query's fetch: "none" | "inflight" | "retrywait"
    jobFail,            \* failureCount of the fetch
    jobCalls,           \* outstanding network calls of the key, oldest first
    lastResp,           \* what the job response that arrived since the last poll tick did
    lastUnmount,        \* no legacy page mounted: whether the one left had intervals running
    jobIntervals,       \* job ids for which a polling interval of the page is live
    progress,           \* Investigation page state progress
    logLast,            \* the last entry of the page's logs state ("none" when empty)
    \* ---- useSessionLogs (log query of the session page)
    logsObserved,       \* SessionPage is mounted: the query's observer is subscribed
    logSrv,             \* log entries the backend holds for the session (ids 1..logSrv)
    logsFetched,        \* query cache ['sessionLogs', id]: data is defined
    logsData,           \* query cache: the held log sequence (ids, in held order)
    logsErr,            \* query cache: the query is in error
    logsNet,            \* the query's fetch: "none" | "inflight"
    logsBatch,          \* batch carried by the call in flight
    logsSince,          \* `since` parameter of the last request issued (0 = not sent)
    \* ---- chart views
    cards,              \* the company list the views are computed from
    charts,             \* session.charts of the snapshot: "absent" | "present"
    view,               \* the view computed last
    out,                \* its value
    runs,               \* consecutive computations of that view (saturating)
    \* ---- session list (Dashboard, Landing) and Compare page
    appPage,            \* which of these pages is mounted: "none" | "dashboard" | "landing" | "compare"
    listSrv,            \* the sessions the backend lists, in the order it lists them
    listFetched,        \* query cache ['sessions', 6]: data is defined
    listData,           \* query cache: the cached array
    listNet,            \* the query's fetch: "none" | "inflight"
    listShown,          \* the list the mounted page rendered last
    selected,           \* Compare page state: ids of the selected companies
    compareReq,         \* compare mutation of the mounted page: "none" | "inflight"
    compareSent         \* number of companyIds in the last compare request sent (0 = none sent)

qvars == <<sessData, sessErr, sessNet, sessNetVal, sessOrigin, sessFail, sessRetryCancelled>>
svars == <<route, mode, srv, startReq, startOwner, unhandled, sessData, sessErr, sessNet,
           sessNetVal, sessOrigin, sessFail, sessRetryCancelled, sessTimer,
           refreshReq, refreshVal, tickGets>>
pvars == <<jobId, isAnimating, logTimer, logIdx, jobTimer, jobIntervals, hsRef>>
obsvars == <<progress, logLast>>
jqvars == <<jobData, jobErr, jobNet, jobFail, jobCalls, lastResp>>
lvars == <<apiShape, jobsCreated, jobSrv, lstart, lstartOwner, hsRef, jobId, isAnimating,
           logTimer, logIdx, jobTimer, jobData, jobErr, jobNet, jobFail, jobCalls, lastResp,
           lastUnmount, jobIntervals, progress, logLast>>
logvars == <<logsObserved, logSrv, logsFetched, logsData, logsErr, logsNet, logsBatch, logsSince>>
chartvars == <<cards, charts, view, out, runs>>
appvars == <<appPage, listSrv, listFetched, listData, listNet, listShown, selected, compareReq,
             compareSent>>
pagevars == <<logvars, chartvars, appvars>>
vars == <<svars, lvars, pagevars>>

Min(a, b) == IF a < b THEN a ELSE b

\* ------------------------------------------------------------ environment
\* The backend's own progress of a session.
Advance(s) ==
    CASE s = "PENDING" -> "RUNNING"
      [] s = "RUNNING" -> "COMPLETED"
      [] OTHER -> s

BackendSteps(s) ==
    CASE s = "PENDING" -> {"RUNNING"}
      [] s = "RUNNING" -> {"COMPLETED", "FAILED"}
      [] OTHER -> {}

\* ------------------------------------------------- useSession (query options)
\* refetchInterval: (data) => (data?.status === 'RUNNING' ? 4000 : false);
\* 0 stands for false.
refetchInterval_anyStatus(data) == IF data # NoData THEN SessionPollMs ELSE 0

refetchInterval(data) == IF data = "RUNNING" THEN SessionPollMs ELSE 0

\* QueryObserver.updateTimers: the interval is armed for a subscribed observer
\* whose refetchInterval evaluates to a valid timeout.
updateTimers(attached, data) == attached /\ refetchInterval(data) > 0

\* fetchSession: GET /api/v1/research/sessions/{id}.  In the scripted run the
\* backend moves one step per poll tick it serves.
fetchSession(origin) ==
    /\ srv' = IF mode = "script" /\ origin = "tick" THEN Advance(srv) ELSE srv
    /\ sessNet' = "inflight"
    /\ sessNetVal' = srv'
    /\ sessOrigin' = origin
    /\ sessFail' = 0

\* QueryObserver.executeFetch without cancelRefetch: a fetch already running is
\* joined (and its retries resumed), no second call is made.
executeFetch(origin) ==
    /\ IF sessNet = "none"
       THEN fetchSession(origin)
       ELSE UNCHANGED <<srv, sessNet, sessNetVal, sessOrigin, sessFail>>
    /\ sessRetryCancelled' = FALSE

Query_onError_dropsData(data) == NoData

\* Reducer of the query state for a failed fetch: data is kept.
Query_onError(data) == data

\* Reducer of the query state for a successful fetch: data is replaced.
Query_onSuccess(data, fetched) == fetched

\* --------------------------------------------------------------- SessionPage
\* Mounting SessionPage subscribes useSession's observer: the query is stale
\* (staleTime 0), so it is fetched, and the observer's timers are set from the
\* data already cached.
SessionPage_mount ==
    /\ executeFetch("mount")
    /\ sessTimer' = updateTimers(TRUE, sessData)
    /\ UNCHANGED <<sessData, sessErr>>

\* Unmounting unsubscribes the observer: its interval is cleared; the query
\* has no observer left and cancels the retries of a fetch still running (the
\* request itself is not aborted, fetchSession does not take the signal).
SessionPage_unmount ==
    /\ sessTimer' = FALSE
    /\ sessRetryCancelled' = (sessNet # "none")
    /\ UNCHANGED <<srv, sessData, sessErr, sessNet, sessNetVal, sessOrigin, sessFail>>

\* ------------------------------------------- Investigation / ResearchLab pages
LegacyPages == {"investigation", "lab"}

clearInterval_keeps(timer) == timer

\* clearInterval(interval) in the cleanup of an effect.
clearInterval(timer) == FALSE

useEffect_cleanup_skipped(intervals) == intervals

\* return () => clearInterval(interval): the cleanup of the polling effect,
\* run before the effect runs again and when the page is unmounted.
useEffect_cleanup(intervals) == {}

\* if (!jobId) return; const interval = setInterval(() => refetchJob(), ...)
useEffect_pollJob(intervals, id) == IF id > 0 THEN intervals \cup {id} ELSE intervals

\* Unmounting a legacy page: the cleanups of its effects clear both intervals
\* and the page's state is gone.  The query of the job it tracked has no
\* observer left and is never observed again (a new page starts with jobId
\* null and every start yields a new id), so its cache entry and the calls
\* still running for it leave the model.
LegacyPage_unmount ==
    /\ jobTimer' = clearInterval(jobTimer)
    /\ logTimer' = clearInterval(logTimer)
    /\ jobId' = 0
    /\ isAnimating' = FALSE
    /\ logIdx' = 0
    /\ hsRef' = 0
    /\ lstartOwner' = FALSE
    /\ jobSrv' = "NONE"
    /\ jobData' = NoData
    /\ jobErr' = FALSE
    /\ jobNet' = "none"
    /\ jobFail' = 0
    /\ jobCalls' = <<>>
    /\ lastResp' = "none"
    /\ lastUnmount' = IF route' \in LegacyPages THEN "none"
                      ELSE IF jobTimer \/ logTimer THEN "timers" ELSE "idle"
    /\ jobIntervals' = useEffect_cleanup(jobIntervals)
    /\ progress' = 0
    /\ logLast' = "none"
    /\ UNCHANGED <<apiShape, jobsCreated, lstart>>

\* The router replaces the mounted page: the page left is unmounted, the page
\* entered is mounted with its initial state.  SessionPage is taken to be the
\* element mounted for /sessions/:id, the path Dashboard and Landing navigate
\* to, and Investigation the one for /investigations/:segment; the route
\* table of App.tsx lists neither path.
SwitchPage(to) ==
    /\ route' = to
    /\ IF to = "session" /\ route # "session" THEN SessionPage_mount
       ELSE IF route = "session" /\ to # "session" THEN SessionPage_unmount
       ELSE UNCHANGED <<srv, qvars, sessTimer>>
    /\ IF route \in LegacyPages /\ to # route THEN LegacyPage_unmount
       ELSE IF to \in LegacyPages /\ to # route
       THEN /\ lastUnmount' = "none"
            /\ UNCHANGED <<apiShape, jobsCreated, jobSrv, lstart, lstartOwner, pvars, jqvars,
                           obsvars>>
       ELSE UNCHANGED lvars

\* A navigation by the user.  The session page needs a session id.
Navigate(to) ==
    /\ to # route
    /\ to = "session" => srv # "NONE"
    /\ SwitchPage(to)
    /\ startOwner' = IF route = "home" THEN FALSE ELSE startOwner
    /\ UNCHANGED <<mode, startReq, unhandled, refreshReq, refreshVal, tickGets>>
    /\ UNCHANGED pagevars

\* Landing.handleSubmit / Dashboard.handleSubmit: start.mutateAsync(...), the
\* backend creates the session (PENDING or already RUNNING).
handleSubmit ==
    /\ route = "home"
    /\ startReq = "none"
    /\ srv = "NONE"
    /\ startReq' = "inflight"
    /\ startOwner' = TRUE
    /\ \E created \in NonTerminal :
          /\ mode = "script" => created = "PENDING"
          /\ srv' = created
    /\ UNCHANGED lvars
    /\ UNCHANGED <<route, mode, unhandled, qvars, sessTimer, refreshReq, refreshVal, tickGets>>
    /\ UNCHANGED pagevars

\* .then((res) => navigate(`/sessions/${res.id}`)): runs when the mutation
\* resolves, whether or not the page that submitted is still mounted.
handleSubmit_then ==
    /\ startReq = "inflight"
    /\ startReq' = "none"
    /\ startOwner' = FALSE
    /\ SwitchPage("session")
    /\ UNCHANGED <<mode, unhandled, refreshReq, refreshVal, tickGets>>
    /\ UNCHANGED pagevars

\* The start request fails: mutateAsync rejects and no handler is attached.
handleSubmit_reject ==
    /\ startReq = "inflight"
    /\ mode = "free"
    /\ startReq' = "none"
    /\ startOwner' = FALSE
    /\ unhandled' = TRUE
    /\ UNCHANGED lvars
    /\ UNCHANGED <<route, mode, srv, qvars, sessTimer, refreshReq, refreshVal, tickGets>>
    /\ UNCHANGED pagevars

\* The backend works on the session.
BackendStep ==
    /\ mode = "free"
    /\ \E s \in BackendSteps(srv) : srv' = s
    /\ UNCHANGED lvars
    /\ UNCHANGED <<route, mode, startReq, startOwner, unhandled, qvars, sessTimer,
                   refreshReq, refreshVal, tickGets>>
    /\ UNCHANGED pagevars

\* The observer's setInterval callback: executeFetch().
RefetchIntervalTick ==
    /\ sessTimer
    /\ tickGets' = IF sessNet = "none" THEN Min(tickGets + 1, TickCap) ELSE tickGets
    /\ executeFetch("tick")
    /\ UNCHANGED lvars
    /\ UNCHANGED <<route, mode, startReq, startOwner, unhandled, sessData, sessErr,
                   sessTimer, refreshReq, refreshVal>>
    /\ UNCHANGED pagevars

\* The response of the call in flight arrives: the cache is written and every
\* subscribed observer re-evaluates its timers from the new data.
FetchSuccess ==
    /\ sessNet = "inflight"
    /\ sessData' = Query_onSuccess(sessData, sessNetVal)
    /\ sessErr' = FALSE
    /\ sessNet' = "none"
    /\ sessNetVal' = NoData
    /\ sessOrigin' = "none"
    /\ sessFail' = 0
    /\ sessRetryCancelled' = FALSE
    /\ sessTimer' = updateTimers(route = "session", sessData')
    /\ UNCHANGED lvars
    /\ UNCHANGED <<route, mode, srv, startReq, startOwner, unhandled, refreshReq,
                   refreshVal, tickGets>>
    /\ UNCHANGED pagevars

\* The fetch ends in error: data is kept, the error is set on the query state.
Query_reject ==
    /\ sessData' = Query_onError(sessData)
    /\ sessErr' = TRUE
    /\ sessNet' = "none"
    /\ sessNetVal' = NoData
    /\ sessOrigin' = "none"
    /\ sessFail' = 0
    /\ sessRetryCancelled' = FALSE
    /\ sessTimer' = updateTimers(route = "session", sessData')

\* The call in flight fails (transport error).  The retryer either waits for
\* the retry delay or, with retries used up, disabled or cancelled, rejects.
FetchError ==
    /\ sessNet = "inflight"
    /\ mode = "free"
    /\ \/ /\ sessFail < MaxRetries
          /\ ~sessRetryCancelled
          /\ sessNet' = "retrywait"
          /\ sessFail' = sessFail + 1
          /\ sessNetVal' = NoData
          /\ UNCHANGED <<sessData, sessErr, sessOrigin, sessRetryCancelled, sessTimer>>
       \/ Query_reject
    /\ UNCHANGED lvars
    /\ UNCHANGED <<route, mode, srv, startReq, startOwner, unhandled, refreshReq,
                   refreshVal, tickGets>>
    /\ UNCHANGED pagevars

\* The retry delay is over: run again, unless the retries were cancelled.
RetryFire ==
    /\ sessNet = "retrywait"
    /\ IF sessRetryCancelled
       THEN Query_reject /\ UNCHANGED srv
       ELSE /\ srv' = srv
            /\ sessNet' = "inflight"
            /\ sessNetVal' = srv
            /\ UNCHANGED <<sessData, sessErr, sessOrigin, sessFail, sessRetryCancelled,
                           sessTimer>>
    /\ UNCHANGED lvars
    /\ UNCHANGED <<route, mode, startReq, startOwner, unhandled, refreshReq, refreshVal,
                   tickGets>>
    /\ UNCHANGED pagevars

\* An unobserved, idle query is garbage-collected after cacheTime.
CacheGc ==
    /\ route # "session"
    /\ sessNet = "none"
    /\ sessData # NoData \/ sessErr
    /\ sessData' = NoData
    /\ sessErr' = FALSE
    /\ UNCHANGED lvars
    /\ UNCHANGED <<route, mode, srv, startReq, startOwner, unhandled, sessNet, sessNetVal,
                   sessOrigin, sessFail, sessRetryCancelled, sessTimer, refreshReq,
                   refreshVal, tickGets>>
    /\ UNCHANGED pagevars

\* "Refresh Scout": refresh.mutateAsync({ sessionId }); the button is disabled
\* while the mutation is loading.  The backend may put the session back to
\* RUNNING and answers with the snapshot.
refreshSession ==
    /\ route = "session"
    /\ refreshReq = "none"
    /\ refreshReq' = "inflight"
    /\ \E answer \in {"RUNNING", srv} :
          /\ mode = "script" => answer = srv
          /\ srv' = answer
          /\ refreshVal' = answer
    /\ UNCHANGED lvars
    /\ UNCHANGED <<route, mode, startReq, startOwner, unhandled, qvars, sessTimer, tickGets>>
    /\ UNCHANGED pagevars

\* useRefreshSession has no onSuccess and SessionPage drops the promise's
\* value: the response is not written anywhere.
useRefreshSession_onSuccess ==
    /\ refreshReq = "inflight"
    /\ refreshReq' = "none"
    /\ refreshVal' = NoData
    /\ UNCHANGED lvars
    /\ UNCHANGED <<route, mode, srv, startReq, startOwner, unhandled, qvars, sessTimer,
                   tickGets>>
    /\ UNCHANGED pagevars

\* The refresh request fails: the rejection of mutateAsync is not handled.
useRefreshSession_onError ==
    /\ refreshReq = "inflight"
    /\ mode = "free"
    /\ refreshReq' = "none"
    /\ refreshVal' = NoData
    /\ unhandled' = TRUE
    /\ UNCHANGED lvars
    /\ UNCHANGED <<route, mode, srv, startReq, startOwner, qvars, sessTimer, tickGets>>
    /\ UNCHANGED pagevars

\* The log query before SessionPage is mounted: nothing cached, no request.
InitLogVars ==
    /\ logsObserved = FALSE
    /\ logSrv = 0
    /\ logsFetched = FALSE
    /\ logsData = <<>>
    /\ logsErr = FALSE
    /\ logsNet = "none"
    /\ logsBatch = <<>>
    /\ logsSince = 0

\* No chart view rendered yet.
InitChartVars ==
    /\ cards = <<>>
    /\ charts = "absent"
    /\ view = "none"
    /\ out = <<>>
    /\ runs = 0

\* Neither a list page nor the Compare page mounted, nothing cached.
InitAppVars ==
    /\ appPage = "none"
    /\ listSrv = <<>>
    /\ listFetched = FALSE
    /\ listData = <<>>
    /\ listNet = "none"
    /\ listShown = <<>>
    /\ selected = {}
    /\ compareReq = "none"
    /\ compareSent = 0

InitLegacyVars ==
    /\ apiShape \in {"job_id", "id"}
    /\ jobsCreated = 0
    /\ jobSrv = "NONE"
    /\ lstart = "none"
    /\ lstartOwner = FALSE
    /\ hsRef = 0
    /\ jobId = 0
    /\ isAnimating = FALSE
    /\ logTimer = FALSE
    /\ logIdx = 0
    /\ jobTimer = FALSE
    /\ jobData = NoData
    /\ jobErr = FALSE
    /\ jobNet = "none"
    /\ jobFail = 0
    /\ jobCalls = <<>>
    /\ lastResp = "none"
    /\ lastUnmount = "none"
    /\ jobIntervals = {}
    /\ progress = 0
    /\ logLast = "none"

InitSessionVars ==
    /\ mode \in {"free", "script"}
    /\ srv = "NONE"
    /\ startReq = "none"
    /\ startOwner = FALSE
    /\ unhandled = FALSE
    /\ sessData = NoData
    /\ sessErr = FALSE
    /\ sessNet = "none"
    /\ sessNetVal = NoData
    /\ sessOrigin = "none"
    /\ sessFail = 0
    /\ sessRetryCancelled = FALSE
    /\ sessTimer = FALSE
    /\ refreshReq = "none"
    /\ refreshVal = NoData
    /\ tickGets = 0

InitSession ==
    /\ route = "home"
    /\ InitSessionVars
    /\ apiShape = "job_id"
    /\ InitLegacyVars
    /\ InitLogVars
    /\ InitChartVars
    /\ InitAppVars

NextSession ==
    \/ \E to \in {"home", "session", "other"} : Navigate(to)
    \/ handleSubmit
    \/ handleSubmit_then
    \/ handleSubmit_reject
    \/ BackendStep
    \/ RefetchIntervalTick
    \/ FetchSuccess
    \/ FetchError
    \/ RetryFire
    \/ CacheGc
    \/ refreshSession
    \/ useRefreshSession_onSuccess
    \/ useRefreshSession_onError

SpecSession == InitSession /\ [][NextSession]_vars

\* ------------------------------------------------ useResearchJob (job query)
\* The network call GET /api/v1/research/{jobId}: the backend's answer is fixed
\* when the call is issued; a call for an undefined id finds no job.
getResearchJob(id) ==
    [val |-> IF id > 0 THEN jobSrv ELSE "missing", live |-> TRUE, stale |-> FALSE]

Query_cancel_keepsRunning(calls) == calls

\* Query.cancel({ silent: true }): the retryer of the running fetch is
\* rejected, so whatever its call returns later is ignored ("dropped").  The
\* HTTP request itself is not aborted (getResearchJob does not take the signal).
Query_cancel(calls) ==
    [i \in DOMAIN calls |->
        [calls[i] EXCEPT !.live = FALSE, !.val = IF @ = "missing" THEN @ ELSE "dropped"]]

\* A new fetch of the query: one network call is issued.
Query_fetch(calls, id) ==
    /\ jobCalls' = Append(calls, getResearchJob(id))
    /\ jobNet' = "inflight"
    /\ jobFail' = 0

\* The observer's refetch(): cancelRefetch defaults to true, so a fetch that
\* is running is cancelled and replaced when the query already has data, and
\* joined when it has none yet.
refetch ==
    IF jobNet = "none" THEN Query_fetch(jobCalls, jobId)
    ELSE IF jobData # NoData THEN Query_fetch(Query_cancel(jobCalls), jobId)
    ELSE UNCHANGED <<jobCalls, jobNet, jobFail>>

\* Whether refetch() would issue a network call now.
refetchIssues == jobNet = "none" \/ jobData # NoData

\* setJobId(id) with the effects of the render it causes: useResearchJob's
\* observer moves to the key of the new id and fetches it (enabled: jobId !==
\* null), and the polling effect is cleaned up and run again: if (!jobId)
\* return; setInterval(...).
setJobId(id) ==
    IF id = jobId
    THEN UNCHANGED <<jobId, jobTimer, jobIntervals, jobSrv, jobData, jobErr, jobNet, jobFail, jobCalls,
                     lastResp>>
    ELSE /\ jobId' = id
         /\ jobTimer' = (id > 0)
         /\ jobIntervals' = useEffect_pollJob(useEffect_cleanup(jobIntervals), id)
         /\ \E s \in JobStatuses : jobSrv' = IF id > 0 THEN s ELSE "NONE"
         /\ jobData' = NoData
         /\ jobErr' = FALSE
         /\ jobNet' = "inflight"
         /\ jobFail' = 0
         /\ jobCalls' = <<[val |-> IF id > 0 THEN jobSrv' ELSE "missing",
                           live |-> TRUE, stale |-> FALSE]>>
         /\ lastResp' = "none"

\* Navigation among the legacy pages.
Legacy_Navigate(to) ==
    /\ to # route
    /\ SwitchPage(to)
    /\ UNCHANGED <<mode, startReq, startOwner, unhandled, refreshReq, refreshVal, tickGets>>
    /\ UNCHANGED pagevars

\* The job id as the page reads it from the start response: Investigation
\* reads res.job_id, ResearchLab reads res.id; a field the backend does not
\* send reads undefined.
ResponseId(field, id) == IF apiShape = field THEN id ELSE -1

\* Math.round((done / total) * 100) for the jobs the backend may report:
\* -1 stands for a job without companies (total = 0, progress is not set).
JobPercents(status) ==
    CASE status = "pending" -> {-1}
      [] status = "running" -> {50}
      [] status = "completed" -> {100}
      [] OTHER -> {50}

\* Investigation's progress effect, run when `job` changes: if (total > 0)
\* setProgress(Math.round((done / total) * 100)).
setProgress_fromJob(p, pct) == IF pct >= 0 THEN pct ELSE p

\* setProgress((p) => Math.min(90, p + 6)) of the scripted-log tick.
setProgress_tick(p) == Min(90, p + 6)

\* error_message?: string | null of a ResearchJob: the text the backend gives
\* for a failed job.
JobErrorMessage == "job.error_message"

\* `Job ${job.id} status: ${job.status}`
StatusMessage(status) ==
    CASE status = "pending" -> "Job status: pending"
      [] status = "running" -> "Job status: running"
      [] status = "completed" -> "Job status: completed"
      [] OTHER -> "Job status: failed"

\* ResearchLab's status-log effect, run when `job` changes to a fetched job:
\* the status message is appended unless it is the last entry, then
\* 'Research completed' is appended if (job.status !== 'running').
ResearchLab_statusLog(last, status) ==
    LET logged == IF last = "none" \/ last # StatusMessage(status)
                  THEN StatusMessage(status) ELSE last
    IN  IF status # "running" THEN "Research completed" ELSE logged

handleStart_catch_silent(last) == last

\* catch (e): the message of the error is appended to the logs
\* (Investigation) or becomes the logs (ResearchLab).
handleStart_catch(last) == "error.message"

\* Investigation.handleStart up to `await startMutation.mutateAsync(...)`.
\* setIsAnimating(true) starts the scripted log unless it is running already;
\* navigate(..., { replace: true }) changes decodedSegment, which runs the
\* scripted-log effect again.
Investigation_handleStart ==
    /\ route = "investigation"
    /\ lstart = "none"
    /\ hsRef < MaxAwait
    /\ jobsCreated < MaxJobs
    /\ lstart' = "inflight"
    /\ lstartOwner' = TRUE
    /\ isAnimating' = TRUE
    /\ progress' = 12
    /\ \E nav \in BOOLEAN :
          IF nav \/ ~isAnimating
          THEN logIdx' = 0 /\ logTimer' = TRUE /\ logLast' = "scripted"
          ELSE logLast' = "none" /\ UNCHANGED <<logIdx, logTimer>>
    /\ UNCHANGED <<apiShape, lastUnmount, jobsCreated, jobSrv, hsRef, jobId, jobTimer, jobIntervals, jqvars>>
    /\ UNCHANGED svars
    /\ UNCHANGED pagevars

\* ResearchLab.handleStart up to `await startMutation.mutateAsync(...)`.
ResearchLab_handleStart ==
    /\ route = "lab"
    /\ lstart = "none"
    /\ jobsCreated < MaxJobs
    /\ lstart' = "inflight"
    /\ lstartOwner' = TRUE
    /\ logLast' = "none"
    /\ UNCHANGED <<apiShape, lastUnmount, jobsCreated, jobSrv, hsRef, jobId, isAnimating, logTimer,
                   logIdx, jobTimer, jobIntervals, jqvars, progress>>
    /\ UNCHANGED svars
    /\ UNCHANGED pagevars

\* The start request succeeds.  On a page still mounted: setJobId(...), and on
\* Investigation setProgress(96), the two entries logged for the companies the
\* response names (it is taken to name one at least), and the handler goes on
\* to `await refetch()`; on ResearchLab the logs become the 'Started' entry.
\* State setters of an unmounted component do nothing.
handleStart_resolved ==
    /\ lstart = "inflight"
    /\ lstart' = "none"
    /\ lstartOwner' = FALSE
    /\ jobsCreated' = jobsCreated + 1
    /\ IF ~lstartOwner
       THEN UNCHANGED <<jobSrv, hsRef, jobId, jobTimer, jobIntervals, jqvars, obsvars>>
       ELSE /\ setJobId(ResponseId(IF route = "investigation" THEN "job_id" ELSE "id",
                                   jobsCreated'))
            /\ hsRef' = IF route = "investigation" THEN hsRef + 1 ELSE hsRef
            /\ progress' = IF route = "investigation" THEN 96 ELSE progress
            /\ logLast' = IF route # "investigation" THEN "started" ELSE "built"
    /\ UNCHANGED <<apiShape, lastUnmount, isAnimating, logTimer, logIdx>>
    /\ UNCHANGED svars
    /\ UNCHANGED pagevars

\* The start request fails: the catch block logs the message; Investigation's
\* finally block runs setIsAnimating(false), which stops the scripted log.
handleStart_rejected ==
    /\ lstart = "inflight"
    /\ lstart' = "none"
    /\ lstartOwner' = FALSE
    /\ IF lstartOwner /\ route = "investigation"
       THEN isAnimating' = FALSE /\ logTimer' = clearInterval(logTimer)
       ELSE UNCHANGED <<isAnimating, logTimer>>
    /\ logLast' = IF lstartOwner THEN handleStart_catch(logLast) ELSE logLast
    /\ UNCHANGED progress
    /\ UNCHANGED <<apiShape, lastUnmount, jobsCreated, jobSrv, hsRef, jobId, logIdx, jobTimer, jobIntervals, jqvars>>
    /\ UNCHANGED svars
    /\ UNCHANGED pagevars

\* Investigation.handleStart after `await refetch()`: setProgress(100) and the
\* finally block's setIsAnimating(false).
Investigation_handleStart_finally ==
    /\ hsRef > 0
    /\ hsRef' = hsRef - 1
    /\ progress' = 100
    /\ isAnimating' = FALSE
    /\ logTimer' = clearInterval(logTimer)
    /\ UNCHANGED logLast
    /\ UNCHANGED <<apiShape, lastUnmount, jobsCreated, jobSrv, lstart, lstartOwner, jobId, logIdx,
                   jobTimer, jobIntervals, jqvars>>
    /\ UNCHANGED svars
    /\ UNCHANGED pagevars

\* Typing in Investigation's input: setQuery; while animating the scripted-log
\* effect is cleaned up and starts over.
setQuery ==
    /\ route = "investigation"
    /\ isAnimating
    /\ logIdx' = 0
    /\ logTimer' = TRUE
    /\ logLast' = "scripted"
    /\ UNCHANGED progress
    /\ UNCHANGED <<apiShape, lastUnmount, jobsCreated, jobSrv, lstart, lstartOwner, hsRef, jobId,
                   isAnimating, jobTimer, jobIntervals, jqvars>>
    /\ UNCHANGED svars
    /\ UNCHANGED pagevars

\* The scripted-log interval fires: idx += 1; past the last entry it clears
\* itself, else the entry is appended.
ScriptedLogTick ==
    /\ logTimer
    /\ logIdx' = logIdx + 1
    /\ logTimer' = IF logIdx' >= ScriptedLen THEN clearInterval(logTimer) ELSE logTimer
    /\ IF logIdx' >= ScriptedLen
       THEN UNCHANGED obsvars
       ELSE logLast' = "scripted" /\ progress' = setProgress_tick(progress)
    /\ UNCHANGED <<apiShape, lastUnmount, jobsCreated, jobSrv, lstart, lstartOwner, hsRef, jobId,
                   isAnimating, jobTimer, jobIntervals, jqvars>>
    /\ UNCHANGED svars
    /\ UNCHANGED pagevars

\* The job polling interval fires: refetchJob() / refetch().
JobPollTick ==
    /\ jobTimer
    /\ refetchIssues => Len(jobCalls) < MaxCalls
    /\ refetch
    /\ lastResp' = "none"
    /\ UNCHANGED <<jobData, jobErr>>
    /\ UNCHANGED <<apiShape, lastUnmount, jobsCreated, jobSrv, lstart, lstartOwner, pvars>>
    /\ UNCHANGED obsvars
    /\ UNCHANGED svars
    /\ UNCHANGED pagevars

\* The backend works on the tracked job.
JobBackendStep ==
    /\ jobId > 0
    /\ \/ jobSrv = "pending" /\ jobSrv' = "running"
       \/ jobSrv = "running" /\ jobSrv' \in JobTerminal
    /\ UNCHANGED <<apiShape, lastUnmount, jobsCreated, lstart, lstartOwner, pvars, jqvars>>
    /\ UNCHANGED obsvars
    /\ UNCHANGED svars
    /\ UNCHANGED pagevars

Remove(calls, i) == SubSeq(calls, 1, i - 1) \o SubSeq(calls, i + 1, Len(calls))

\* Calls started before call i have been overtaken once i's answer is applied.
Overtake(calls, i) ==
    [j \in DOMAIN calls |-> IF j < i THEN [calls[j] EXCEPT !.stale = TRUE] ELSE calls[j]]

\* The answer of call i arrives.  The running fetch's answer is written to
\* the cache; the answer of a cancelled call is dropped.
JobResponse(i) ==
    /\ i \in DOMAIN jobCalls
    /\ jobCalls[i].val # "missing"
    /\ IF jobCalls[i].live
       THEN /\ jobData' = jobCalls[i].val
            /\ jobErr' = FALSE
            /\ jobNet' = "none"
            /\ jobFail' = 0
            /\ jobCalls' = Remove(Overtake(jobCalls, i), i)
            /\ lastResp' = IF jobCalls[i].stale THEN "appliedStale" ELSE "applied"
       ELSE /\ jobCalls' = Remove(jobCalls, i)
            /\ lastResp' = IF jobCalls[i].stale THEN "discardedStale" ELSE "discarded"
            /\ UNCHANGED <<jobData, jobErr, jobNet, jobFail>>
    /\ UNCHANGED <<apiShape, lastUnmount, jobsCreated, jobSrv, lstart, lstartOwner, pvars>>
    /\ IF jobCalls[i].live /\ jobData' # jobData
       THEN /\ \E pct \in JobPercents(jobData') :
                 progress' = IF route = "investigation"
                             THEN setProgress_fromJob(progress, pct) ELSE progress
            /\ logLast' = IF route = "lab" THEN ResearchLab_statusLog(logLast, jobData')
                          ELSE logLast
       ELSE UNCHANGED obsvars
    /\ UNCHANGED svars
    /\ UNCHANGED pagevars

\* Call i fails (transport error, or no such job).  For the running fetch the
\* retryer waits for the retry delay or rejects: data is kept, the error set.
JobFailure(i) ==
    /\ i \in DOMAIN jobCalls
    /\ jobCalls' = Remove(jobCalls, i)
    /\ IF jobCalls[i].live
       THEN \/ /\ jobFail < MaxRetries
               /\ jobNet' = "retrywait"
               /\ jobFail' = jobFail + 1
               /\ UNCHANGED <<jobData, jobErr>>
            \/ /\ jobNet' = "none"
               /\ jobFail' = 0
               /\ jobErr' = TRUE
               /\ jobData' = Query_onError(jobData)
       ELSE UNCHANGED <<jobData, jobErr, jobNet, jobFail>>
    /\ UNCHANGED lastResp
    /\ UNCHANGED <<apiShape, lastUnmount, jobsCreated, jobSrv, lstart, lstartOwner, pvars>>
    /\ UNCHANGED obsvars
    /\ UNCHANGED svars
    /\ UNCHANGED pagevars

\* The retry delay of the job fetch is over: the call is issued again.
JobRetryFire ==
    /\ jobNet = "retrywait"
    /\ Len(jobCalls) < MaxCalls
    /\ jobCalls' = Append(jobCalls, getResearchJob(jobId))
    /\ jobNet' = "inflight"
    /\ UNCHANGED <<jobData, jobErr, jobFail, lastResp>>
    /\ UNCHANGED <<apiShape, lastUnmount, jobsCreated, jobSrv, lstart, lstartOwner, pvars>>
    /\ UNCHANGED obsvars
    /\ UNCHANGED svars
    /\ UNCHANGED pagevars

InitLegacy ==
    /\ route = "other"
    /\ InitSessionVars
    /\ mode = "free"
    /\ InitLegacyVars
    /\ InitLogVars
    /\ InitChartVars
    /\ InitAppVars

NextLegacy ==
    \/ \E to \in {"investigation", "lab", "other"} : Legacy_Navigate(to)
    \/ Investigation_handleStart
    \/ ResearchLab_handleStart
    \/ handleStart_resolved
    \/ handleStart_rejected
    \/ Investigation_handleStart_finally
    \/ setQuery
    \/ ScriptedLogTick
    \/ JobPollTick
    \/ JobBackendStep
    \/ \E i \in 1..MaxCalls : JobResponse(i)
    \/ \E i \in 1..MaxCalls : JobFailure(i)
    \/ JobRetryFire

SpecLegacy == InitLegacy /\ [][NextLegacy]_vars

\* ---------------------------------------------- useSessionLogs (log query)
\* SpecLogs follows the ['sessionLogs', id] query of SessionPage on its own:
\* the query shares nothing with the ['session', id] query but the moments at
\* which the page mounts and unmounts, and logsObserved stands for the page
\* being mounted.  A log entry is identified by its id; the backend numbers
\* the entries of a session 1, 2, ...
Max(a, b) == IF a > b THEN a ELSE b

Range(a, b) == [i \in 1..Max(b - a + 1, 0) |-> a + i - 1]

\* Entries the backend sends when a request carries no cursor: the whole
\* history, or only its most recent entries.
LogWindow == 2

\* GET /api/v1/research/sessions/{id}/logs: the batches the backend may answer
\* with, in id order.  With a cursor, the entries after it.
BackendLogs(since) ==
    IF since > 0
    THEN {Range(since + 1, logSrv)}
    ELSE {Range(1, logSrv), Range(Max(1, logSrv - LogWindow + 1), logSrv)}

\* fetchSessionLogs(sessionId, since): params: since ? { since } : undefined.
fetchSessionLogs(since) ==
    /\ logsNet' = "inflight"
    /\ logsSince' = since
    /\ logsBatch' \in BackendLogs(since)

\* useSessionLogs' query function: () => fetchSessionLogs(sessionId); no
\* second argument is passed.
useSessionLogs_queryFn == fetchSessionLogs(0)

\* useSessionLogs passes { enabled } only: no refetchInterval, so the observer
\* arms no timer.  Mounting SessionPage subscribes the observer; the query is
\* stale (staleTime 0) and is fetched unless a fetch of it is running.
SessionPage_subscribeLogs ==
    /\ ~logsObserved
    /\ logsObserved' = TRUE
    /\ IF logsNet = "none"
       THEN useSessionLogs_queryFn
       ELSE UNCHANGED <<logsNet, logsSince, logsBatch>>
    /\ UNCHANGED <<logSrv, logsFetched, logsData, logsErr>>
    /\ UNCHANGED <<svars, lvars, chartvars, appvars>>

\* Unmounting SessionPage unsubscribes the observer; a request in flight is
\* not aborted (fetchSessionLogs does not take the signal).
SessionPage_unsubscribeLogs ==
    /\ logsObserved
    /\ logsObserved' = FALSE
    /\ UNCHANGED <<logSrv, logsFetched, logsData, logsErr, logsNet, logsBatch, logsSince>>
    /\ UNCHANGED <<svars, lvars, chartvars, appvars>>

\* The backend writes a log entry.
LogBackendAppend ==
    /\ logSrv < MaxLogs
    /\ logSrv' = logSrv + 1
    /\ UNCHANGED <<logsObserved, logsFetched, logsData, logsErr, logsNet, logsBatch, logsSince>>
    /\ UNCHANGED <<svars, lvars, chartvars, appvars>>

\* The log request resolves: the query's data becomes the batch received.
fetchSessionLogs_resolve ==
    /\ logsNet = "inflight"
    /\ logsData' = Query_onSuccess(logsData, logsBatch)
    /\ logsFetched' = TRUE
    /\ logsErr' = FALSE
    /\ logsNet' = "none"
    /\ logsBatch' = <<>>
    /\ UNCHANGED <<logsObserved, logSrv, logsSince>>
    /\ UNCHANGED <<svars, lvars, chartvars, appvars>>

\* The log request fails for good (retries, if any, are part of the call):
\* data is kept, the error is set.
fetchSessionLogs_reject ==
    /\ logsNet = "inflight"
    /\ logsData' = Query_onError(logsData)
    /\ logsErr' = TRUE
    /\ logsNet' = "none"
    /\ logsBatch' = <<>>
    /\ UNCHANGED <<logsObserved, logSrv, logsFetched, logsSince>>
    /\ UNCHANGED <<svars, lvars, chartvars, appvars>>

\* The unobserved, idle log query is garbage-collected after cacheTime.
LogsCacheGc ==
    /\ ~logsObserved
    /\ logsNet = "none"
    /\ logsFetched \/ logsErr
    /\ logsFetched' = FALSE
    /\ logsData' = <<>>
    /\ logsErr' = FALSE
    /\ UNCHANGED <<logsObserved, logSrv, logsNet, logsBatch, logsSince>>
    /\ UNCHANGED <<svars, lvars, chartvars, appvars>>

InitLogs ==
    /\ route = "other"
    /\ InitSessionVars
    /\ mode = "free"
    /\ apiShape = "job_id"
    /\ InitLegacyVars
    /\ InitLogVars
    /\ InitChartVars
    /\ InitAppVars

NextLogs ==
    \/ SessionPage_subscribeLogs
    \/ SessionPage_unsubscribeLogs
    \/ LogBackendAppend
    \/ fetchSessionLogs_resolve
    \/ fetchSessionLogs_reject
    \/ LogsCacheGc

SpecLogs == InitLogs /\ [][NextLogs]_vars

\* A log request that can resolve infinitely often does resolve.
SpecLogsLive == SpecLogs /\ SF_vars(fetchSessionLogs_resolve)

\* ------------------------------------------------------------- chart views
\* A field that is null or not sent.
Null == "<null>"

\* JavaScript truthiness of a string field: null, undefined and '' are falsy.
Falsy(x) == x \in {Null, ""}

\* Date strings and what `new Date(str).getFullYear()` makes of them; NaN
\* stands for an invalid date.
NaN == -1

Date_getFullYear(str) ==
    CASE str = "2019-06-30" -> 2019
      [] str = "2021-03-01" -> 2021
      [] str = "2024-01-15" -> 2024
      [] OTHER -> NaN

\* Companies the lists are drawn from.  A name is the sequence of its UTF-16
\* code units.
CompanyCatalog ==
    { [name |-> <<65, 98>>, category |-> "SaaS", size_bucket |-> "11-50", segment |-> "fintech",
       first_discovered |-> "2021-03-01", last_updated |-> "2024-01-15"],
      [name |-> <<66>>, category |-> "2020", size_bucket |-> Null, segment |-> Null,
       first_discovered |-> Null, last_updated |-> "2024-01-15"],
      [name |-> <<>>, category |-> Null, size_bucket |-> "51-200", segment |-> "FinTech",
       first_discovered |-> "n/a", last_updated |-> "2024-01-15"],
      [name |-> <<67>>, category |-> "constructor", size_bucket |-> "11-50", segment |-> "fintech",
       first_discovered |-> Null, last_updated |-> Null],
      [name |-> <<65535, 122>>, category |-> "", size_bucket |-> "", segment |-> "health",
       first_discovered |-> "", last_updated |-> "n/a"],
      [name |-> <<68>>, category |-> "SaaS", size_bucket |-> "51-200", segment |-> "fintech",
       first_discovered |-> "2019-06-30", last_updated |-> Null] }

\* const map: Record<string, number> = {}: an object is the list of its own
\* properties in creation order; a property it does not own is looked up in
\* Object.prototype.  num tells whether the value is a number.
ProtoKeys == {"constructor"}

\* Keys that are array indices (canonical numeric strings), with their values.
IndexKeys == {"2020"}

KeyNumber(key) == CASE key = "2020" -> 2020 [] OTHER -> 0

Owns(map, key) == \E i \in DOMAIN map : map[i].key = key

OwnIndex(map, key) == CHOOSE i \in DOMAIN map : map[i].key = key

\* map[key] = (map[key] || 0) + 1.  A number is incremented; undefined counts
\* from 0; any other truthy value (an inherited function, a string) is
\* concatenated with '1' and the result, a string, is stored.
Increment(map, key) ==
    IF Owns(map, key)
    THEN [map EXCEPT ![OwnIndex(map, key)] =
              IF @.num THEN [@ EXCEPT !.val = @ + 1] ELSE @]
    ELSE IF key \in ProtoKeys
    THEN Append(map, [key |-> key, val |-> 0, num |-> FALSE])
    ELSE Append(map, [key |-> key, val |-> 1, num |-> TRUE])

RECURSIVE SortByKeyNumber(_)
SortByKeyNumber(S) ==
    IF S = {} THEN <<>>
    ELSE LET m == CHOOSE e \in S : \A f \in S : KeyNumber(e.key) <= KeyNumber(f.key)
         IN  <<m>> \o SortByKeyNumber(S \ {m})

\* Object.entries(map): array-index keys in ascending numeric order first,
\* then the other keys in creation order.
Object_entries(map) ==
    SortByKeyNumber({map[i] : i \in {j \in DOMAIN map : map[j].key \in IndexKeys}})
        \o SelectSeq(map, LAMBDA e : e.key \notin IndexKeys)

\* chartCompanies.forEach((c) => { const key = ...; map[key] = ... }).
RECURSIVE CountBy(_, _, _, _)
CountBy(list, field, dflt, map) ==
    IF list = <<>> THEN map
    ELSE LET c == Head(list)
             key == IF Falsy(c[field]) THEN dflt ELSE c[field]
         IN  CountBy(Tail(list), field, dflt, Increment(map, key))

\* SEGMENT_COLORS.length
NumColors == 9

marketSegmentation(list) ==
    LET entries == Object_entries(CountBy(list, "category", "Uncategorized", <<>>))
    IN  [i \in DOMAIN entries |->
            [name |-> entries[i].key, value |-> entries[i].val, num |-> entries[i].num,
             color |-> (i - 1) % NumColors]]

sizeBuckets(list) ==
    LET entries == Object_entries(CountBy(list, "size_bucket", "Unknown", <<>>))
    IN  [i \in DOMAIN entries |->
            [label |-> entries[i].key, count |-> entries[i].val, num |-> entries[i].num]]

RECURSIVE CharCodeSum(_)
CharCodeSum(name) == IF name = <<>> THEN 0 ELSE Head(name) + CharCodeSum(Tail(name))

computeScore_unfolded(name, idx) == 60 + CharCodeSum(name) + idx * 31

computeScore_perRender(name, idx) == 60 + ((CharCodeSum(name) + (idx + runs) * 31) % 40)

\* Investigation's computeScore(name, idx); idx counts from 0.
computeScore(name, idx) == 60 + ((CharCodeSum(name) + idx * 31) % 40)

\* computeScore(name) of the company profile page.
CompetitorWiki_computeScore(name) == 60 + (CharCodeSum(name) % 35)

performanceSeries(list) ==
    [i \in DOMAIN list |-> [name |-> list[i].name, score |-> computeScore(list[i].name, i - 1)]]

\* The year foundingTimeline resolves for a company, NaN or 0 when none:
\* dateStr = c.first_discovered || c.last_updated; the year of that one string.
ResolveYear(c) ==
    LET dateStr == IF Falsy(c.first_discovered) THEN c.last_updated ELSE c.first_discovered
    IN  IF Falsy(dateStr) THEN NaN ELSE Date_getFullYear(dateStr)

\* One point per company with a truthy year; y = computeScore / 2 is kept as
\* a fraction.
RECURSIVE TimelineFrom(_, _)
TimelineFrom(list, i) ==
    IF i > Len(list) THEN <<>>
    ELSE LET c == list[i]
             year == ResolveYear(c)
         IN  (IF year # NaN /\ year # 0
              THEN <<[x |-> year,
                      y |-> [num |-> computeScore(c.name, i - 1), den |-> 2],
                      z |-> 60 + (((i - 1) * 20) % 120),
                      name |-> c.name]>>
              ELSE <<>>) \o TimelineFrom(list, i + 1)

foundingTimeline(list) == TimelineFrom(list, 1)

\* Values of activeSegment (query || decodedSegment); '' when neither is set.
ActiveSegments == {"", "fintech", "Health"}

String_toLowerCase(str) ==
    CASE str = "FinTech" -> "fintech"
      [] str = "Health" -> "health"
      [] OTHER -> str

\* Positions in the list of the companies companiesFound keeps:
\* activeSegment ? chartCompanies.filter((c) => (c.segment || '').toLowerCase()
\*                     === activeSegment.toLowerCase()) : chartCompanies
companiesFound(list, activeSegment) ==
    IF Falsy(activeSegment) THEN [i \in DOMAIN list |-> i]
    ELSE SelectSeq([i \in DOMAIN list |-> i],
                   LAMBDA i : String_toLowerCase(IF Falsy(list[i].segment) THEN "" ELSE list[i].segment)
                                  = String_toLowerCase(activeSegment))

\* companiesFound.map((company, idx) => <CompanyCard score={computeScore(
\* company.name, idx)} />): idx is the position among the cards shown.  at is
\* the company's position in the list, which identifies it.
CompanyCards(list, activeSegment) ==
    LET found == companiesFound(list, activeSegment)
    IN  [k \in DOMAIN found |->
            [at |-> found[k], name |-> list[found[k]].name,
             score |-> computeScore(list[found[k]].name, k - 1)]]

\* session.charts when the backend sends it: one entry per view, here a fixed
\* payload that no local computation produces.
ChartsPayload(v) == <<[view |-> v, from |-> "backend"]>>

SessionViews == {"segmentation", "company_scale", "performance_matrix", "market_evolution"}

\* SessionPage: const segmentation = session?.charts?.segmentation || []; and
\* likewise for the other three views.
SessionPage_chart(chartsField, v) ==
    IF chartsField = "present" THEN ChartsPayload(v) ELSE <<>>

\* Each render of the page evaluates the view again from the list it holds;
\* Rerun counts the evaluations of view v in a row.
Rerun(v) == IF view = v THEN Min(runs + 1, MaxRuns) ELSE 1

\* Investigation renders its derived views from the company list.
Investigation_marketSegmentation ==
    /\ view' = "inv_segmentation"
    /\ runs' = Rerun("inv_segmentation")
    /\ out' = marketSegmentation(cards)
    /\ UNCHANGED <<cards, charts>>
    /\ UNCHANGED <<svars, lvars, logvars, appvars>>

Investigation_sizeBuckets ==
    /\ view' = "inv_sizeBuckets"
    /\ runs' = Rerun("inv_sizeBuckets")
    /\ out' = sizeBuckets(cards)
    /\ UNCHANGED <<cards, charts>>
    /\ UNCHANGED <<svars, lvars, logvars, appvars>>

Investigation_performanceSeries ==
    /\ view' = "inv_performance"
    /\ runs' = Rerun("inv_performance")
    /\ out' = performanceSeries(cards)
    /\ UNCHANGED <<cards, charts>>
    /\ UNCHANGED <<svars, lvars, logvars, appvars>>

Investigation_foundingTimeline ==
    /\ view' = "inv_timeline"
    /\ runs' = Rerun("inv_timeline")
    /\ out' = foundingTimeline(cards)
    /\ UNCHANGED <<cards, charts>>
    /\ UNCHANGED <<svars, lvars, logvars, appvars>>

\* Investigation renders the card grid of the companies found.
Investigation_companiesFound ==
    \E activeSegment \in ActiveSegments :
        /\ view' = IF Falsy(activeSegment) THEN "inv_cards" ELSE "inv_cards_filtered"
        /\ runs' = Rerun(view')
        /\ out' = CompanyCards(cards, activeSegment)
        /\ UNCHANGED <<cards, charts>>
        /\ UNCHANGED <<svars, lvars, logvars, appvars>>

\* The score shown on the profile page of one of the companies.
CompetitorWiki_score ==
    \E i \in DOMAIN cards :
        /\ view' = "wiki_score"
        /\ runs' = Rerun("wiki_score")
        /\ out' = <<[name |-> cards[i].name,
                  score |-> CompetitorWiki_computeScore(cards[i].name)]>>
        /\ UNCHANGED <<cards, charts>>
        /\ UNCHANGED <<svars, lvars, logvars, appvars>>

\* SessionPage renders one of its four chart views.
SessionPage_charts ==
    \E v \in SessionViews :
        /\ view' = v
        /\ runs' = Rerun(v)
        /\ out' = SessionPage_chart(charts, v)
        /\ UNCHANGED <<cards, charts>>
        /\ UNCHANGED <<svars, lvars, logvars, appvars>>

CompanyLists == UNION {[1..n -> CompanyCatalog] : n \in 0..MaxCompanies}

InitCharts ==
    /\ route = "other"
    /\ InitSessionVars
    /\ mode = "free"
    /\ apiShape = "job_id"
    /\ InitLegacyVars
    /\ InitLogVars
    /\ cards \in CompanyLists
    /\ charts \in {"absent", "present"}
    /\ view = "none"
    /\ out = <<>>
    /\ runs = 0
    /\ InitAppVars

NextCharts ==
    \/ Investigation_marketSegmentation
    \/ Investigation_sizeBuckets
    \/ Investigation_performanceSeries
    \/ Investigation_foundingTimeline
    \/ Investigation_companiesFound
    \/ CompetitorWiki_score
    \/ SessionPage_charts

SpecCharts == InitCharts /\ [][NextCharts]_vars

\* ------------------------------------------ session list and Compare page
\* useRecentSessions(limit = 6)
RecentLimit == 6

\* A session list: ids by position, updated_at a stamp.
SessionLists ==
    UNION {[1..n -> [id : 1..MaxSessions, updated_at : 1..MaxSessions]] : n \in 0..MaxSessions}

\* The lists the backend can hold: one entry per session.
BackendSessionLists == {l \in SessionLists : \A i \in DOMAIN l : l[i].id = i}

\* fetchSessions(limit): GET /api/v1/research/sessions?limit=...
fetchSessions(limit) == SubSeq(listSrv, 1, Min(limit, Len(listSrv)))

\* Array.prototype.sort with (a, b) => Date(b.updated_at) - Date(a.updated_at):
\* descending by updated_at, stable.
RECURSIVE Array_insertDesc(_, _)
Array_insertDesc(arr, x) ==
    IF arr = <<>> THEN <<x>>
    ELSE IF Head(arr).updated_at >= x.updated_at
         THEN <<Head(arr)>> \o Array_insertDesc(Tail(arr), x)
         ELSE <<x>> \o arr

RECURSIVE Array_sort(_)
Array_sort(arr) ==
    IF arr = <<>> THEN <<>>
    ELSE Array_insertDesc(Array_sort(SubSeq(arr, 1, Len(arr) - 1)), arr[Len(arr)])

Array_slice(arr, n) == SubSeq(arr, 1, Min(n, Len(arr)))

ListPages == {"dashboard", "landing"}

\* The router mounts one of the pages.  A list page subscribes
\* useRecentSessions: the query is stale and is fetched unless a fetch is
\* running.  The state of the page left is gone; the compare mutation of a
\* Compare page left is no longer observed.
Pages_mount(p) ==
    /\ appPage # p
    /\ appPage' = p
    /\ listNet' = IF p \in ListPages THEN "inflight" ELSE listNet
    /\ listShown' = <<>>
    /\ selected' = {}
    /\ compareReq' = "none"
    /\ UNCHANGED <<listSrv, listFetched, listData, compareSent>>
    /\ UNCHANGED <<svars, lvars, logvars, chartvars>>

fetchSessions_resolve ==
    /\ listNet = "inflight"
    /\ listNet' = "none"
    /\ listFetched' = TRUE
    /\ listData' = fetchSessions(RecentLimit)
    /\ UNCHANGED <<appPage, listSrv, listShown, selected, compareReq, compareSent>>
    /\ UNCHANGED <<svars, lvars, logvars, chartvars>>

\* The request fails: the cached data stays.
fetchSessions_reject ==
    /\ listNet = "inflight"
    /\ listNet' = "none"
    /\ UNCHANGED <<appPage, listSrv, listFetched, listData, listShown, selected, compareReq,
                   compareSent>>
    /\ UNCHANGED <<svars, lvars, logvars, chartvars>>

\* Dashboard: const sorted = useMemo(() => (sessions || []).sort(...), [sessions]).
\* sessions is the array the cache holds; sort orders it in place and returns it.
Dashboard_sorted ==
    /\ appPage = "dashboard"
    /\ listData' = IF listFetched THEN Array_sort(listData) ELSE listData
    /\ listShown' = IF listFetched THEN listData' ELSE <<>>
    /\ UNCHANGED <<appPage, listSrv, listFetched, listNet, selected, compareReq, compareSent>>
    /\ UNCHANGED <<svars, lvars, logvars, chartvars>>

\* Landing: recentInvestigations = [...sessions].sort(...).slice(0, 6), [] while
\* sessions is undefined.  The copy is sorted, the cached array is left alone.
Landing_recentInvestigations ==
    /\ appPage = "landing"
    /\ listShown' = IF listFetched THEN Array_slice(Array_sort(listData), 6) ELSE <<>>
    /\ UNCHANGED <<appPage, listSrv, listFetched, listData, listNet, selected, compareReq,
                   compareSent>>
    /\ UNCHANGED <<svars, lvars, logvars, chartvars>>

\* selected.length < 2 || selected.length > 3, negated: the test of
\* handleCompare's early return and of the button's disabled attribute.
Compare_sizeAccepted_upTo4(n) == ~(n < 2 \/ n > 4)

Compare_sizeAccepted(n) == ~(n < 2 \/ n > 3)

\* <Combobox.Option disabled={selected.some((c) => c.id === company.id) &&
\* selected.length >= 3}>
Compare_optionDisabled(c) == c \in selected /\ Cardinality(selected) >= 3

\* <Combobox value={selected} onChange={setSelected} multiple>: choosing an
\* enabled option adds it to the selection, or removes it when it is in it.
Compare_setSelected ==
    /\ appPage = "compare"
    /\ \E c \in 1..MaxOptions :
          /\ ~Compare_optionDisabled(c)
          /\ selected' = IF c \in selected THEN selected \ {c} ELSE selected \cup {c}
    /\ UNCHANGED <<appPage, listSrv, listFetched, listData, listNet, listShown, compareReq,
                   compareSent>>
    /\ UNCHANGED <<svars, lvars, logvars, chartvars>>

\* A click on the Compare button (disabled for a selection the size test
\* rejects and while the mutation is loading) runs handleCompare, which
\* returns early on the same size test and otherwise sends
\* { companyIds: selected.map((c) => c.id) }.
Compare_handleCompare ==
    /\ appPage = "compare"
    /\ Compare_sizeAccepted(Cardinality(selected))
    /\ compareReq = "none"
    /\ IF Compare_sizeAccepted(Cardinality(selected))
       THEN /\ compareReq' = "inflight"
            /\ compareSent' = Cardinality(selected)
       ELSE UNCHANGED <<compareReq, compareSent>>
    /\ UNCHANGED <<appPage, listSrv, listFetched, listData, listNet, listShown, selected>>
    /\ UNCHANGED <<svars, lvars, logvars, chartvars>>

\* The compare request resolves or rejects (the rejection is caught).
compareCompanies_settled ==
    /\ compareReq = "inflight"
    /\ compareReq' = "none"
    /\ UNCHANGED <<appPage, listSrv, listFetched, listData, listNet, listShown, selected,
                   compareSent>>
    /\ UNCHANGED <<svars, lvars, logvars, chartvars>>

InitPages ==
    /\ route = "other"
    /\ InitSessionVars
    /\ mode = "free"
    /\ apiShape = "job_id"
    /\ InitLegacyVars
    /\ InitLogVars
    /\ InitChartVars
    /\ appPage = "none"
    /\ listSrv \in BackendSessionLists
    /\ listFetched = FALSE
    /\ listData = <<>>
    /\ listNet = "none"
    /\ listShown = <<>>
    /\ selected = {}
    /\ compareReq = "none"
    /\ compareSent = 0

NextPages ==
    \/ \E p \in {"dashboard", "landing", "compare"} : Pages_mount(p)
    \/ fetchSessions_resolve
    \/ fetchSessions_reject
    \/ Dashboard_sorted
    \/ Landing_recentInvestigations
    \/ Compare_setSelected
    \/ Compare_handleCompare
    \/ compareCompanies_settled

SpecPages == InitPages /\ [][NextPages]_vars

\* ===================================================== session properties

\* C1: whenever the cached snapshot of the session is non-terminal (PENDING
\* or RUNNING) and the session page is attached, the next fetch is scheduled.
C1_NonTerminalIsPolled ==
    (route = "session" /\ sessData \in NonTerminal) => sessTimer

\* With a terminal snapshot cached, a step neither counts a poll-tick GET nor
\* starts a fetch of tick origin.
C2_NoTickFetch ==
    sessData \in Terminal =>
        (tickGets' = tickGets /\ (sessOrigin' = "tick" => sessOrigin = "tick"))

\* C2: the polling decision follows the status the last fetch returned: with
\* a COMPLETED or FAILED snapshot cached no poll timer is armed, and while it
\* is cached no poll tick issues a fetch.
C2_TerminalStopsPolling ==
    [](sessData \in Terminal => ~sessTimer) /\ [][C2_NoTickFetch]_vars

C2_Witness ==
    /\ route = "session"
    /\ sessData = "COMPLETED"
    /\ tickGets >= 1
    /\ sessNet = "none"

\* The step in which a refresh answering RUNNING for a terminal snapshot
\* succeeds on the attached page.
C4_RefreshStep ==
    (/\ useRefreshSession_onSuccess
     /\ refreshVal = "RUNNING"
     /\ sessData \in Terminal
     /\ route = "session")
    => (sessData' = "RUNNING" /\ sessTimer')

\* C4: a successful refresh that answers RUNNING for a session cached as
\* COMPLETED or FAILED makes the cached snapshot RUNNING and re-arms the poll
\* timer of the attached page.
C4_RefreshRearmsPoller == [][C4_RefreshStep]_vars

\* C5: in the scripted run (start answers PENDING, poll tick 1 is answered
\* RUNNING, poll tick 2 COMPLETED, no transport error) the attached page comes
\* to rest only after exactly two GET session calls made by poll ticks, with
\* COMPLETED cached.
C5_ScriptedRunMakesTwoPollCalls ==
    (/\ mode = "script"
     /\ route = "session"
     /\ sessNet = "none"
     /\ sessData # NoData
     /\ ~sessTimer)
    => (tickGets = 2 /\ sessData = "COMPLETED")

\* The step in which a start request settles after its page was unmounted.
C7_LateStartStep ==
    (startReq = "inflight" /\ ~startOwner /\ startReq' = "none")
        => (route' = route /\ unhandled' = unhandled)

\* C7: when the start request resolves or fails after the page that issued
\* it was unmounted, nothing is written: no navigation happens and no error
\* is raised.
C7_LateStartIsNoOp == [][C7_LateStartStep]_vars

\* The step in which a session fetch fails for good or has its retry dropped.
C10_FailureStep ==
    (FetchError \/ (RetryFire /\ sessRetryCancelled))
        => (sessData' = sessData /\ sessTimer' = sessTimer /\ (sessNet' = "none" => sessErr'))

\* C10: a failed fetch of the session leaves the cached snapshot and the
\* polling derived from it as they were; when the fetch ends, the error flag
\* is set on the query, which the session page renders.
C10_FailedFetchKeepsSnapshot == [][C10_FailureStep]_vars

C10_Witness ==
    /\ route = "session"
    /\ sessErr
    /\ sessData = "RUNNING"
    /\ sessTimer

\* The step in which a fetch of a session that is not terminal fails on the
\* attached page.
C11_FailedFetchStep ==
    (FetchError /\ route = "session" /\ srv \in NonTerminal /\ sessData \notin Terminal)
        => (sessNet' = "none" /\ sessTimer')

\* C11: when a fetch of a non-terminal session fails, with or without a
\* snapshot cached, the fetch is over (it is not run again before the next
\* poll tick) and the poll timer is armed, so that a fetch is issued at the
\* next tick.
C11_FailedFetchWaitsForTick == [][C11_FailedFetchStep]_vars

\* ================================================== legacy page properties

\* The step in which the job poll interval fires and issues a call.
C3_TickStep == (JobPollTick /\ refetchIssues) => jobData \notin JobTerminal

\* C3: a periodic fetch of a research job is issued only while the job's last
\* fetched status is not terminal (completed or failed).
C3_JobPollStopsAtTerminal == [][C3_TickStep]_vars

\* C6: once a page is unmounted none of its intervals is running: no job poll
\* and no scripted-log tick can fire for a page that is gone, and no session
\* poll for a session page that is gone.
C6_DetachClearsTimers ==
    /\ route \notin LegacyPages => ~jobTimer
    /\ route # "investigation" => ~logTimer
    /\ route # "session" => ~sessTimer

C6_Witness ==
    /\ route = "other"
    /\ lastUnmount = "timers"
    /\ ~jobTimer
    /\ ~logTimer

\* C8: for one job key at most one network call is outstanding at any time.
C8_AtMostOneOutstanding == Len(jobCalls) <= 1

\* C9: the answer of a call that was started before the call whose answer is
\* already in the cache is never written to the cache.
C9_StaleNeverApplied == lastResp # "appliedStale"

C9_Witness ==
    /\ lastResp = "discardedStale"
    /\ jobData \in JobStatuses

\* ===================================================== log query properties

\* The ids of a sequence of log entries.
C12_ids(s) == {s[i] : i \in DOMAIN s}

\* merge(existing, incoming): the union of the ids, ascending, each id once.
C12_merge(existing, incoming) ==
    LET U == C12_ids(existing) \cup C12_ids(incoming)
    IN  CHOOSE s \in [1..Cardinality(U) -> U] :
            /\ C12_ids(s) = U
            /\ \A i, j \in DOMAIN s : i < j => s[i] < s[j]

\* The step in which a log batch is received.
C12_ReceiveStep == fetchSessionLogs_resolve => logsData' = C12_merge(logsData, logsBatch)

\* C12: whenever a log batch is received the held log sequence becomes the
\* merge of the sequence held before and the batch: no held id is lost,
\* reordered or duplicated.
C12_HeldIsMerge == [][C12_ReceiveStep]_vars

\* The step in which a log request is issued while entries are held.
C13_RequestStep ==
    (logsNet = "none" /\ logsNet' = "inflight" /\ logsData # <<>>)
        => logsSince' = logsData[Len(logsData)]

\* C13: a log request issued while log entries are held carries the highest
\* held id as its `since` cursor.
C13_CursorIsPassed == [][C13_RequestStep]_vars

\* The held log sequence ends with the newest entry of the backend.
C14_UpToDate ==
    /\ logsFetched
    /\ logSrv = 0 \/ (logsData # <<>> /\ logsData[Len(logsData)] = logSrv)

\* No log request is issued for an unmounted page.
C14_DetachedStep == (~logsObserved /\ ~logsObserved') => (logsNet' = "inflight" => logsNet = "inflight")

\* C14: while the session page stays mounted the log sequence catches up with
\* the entries the backend has written, also those written after the first
\* log fetch; and no log request is issued once the page is unmounted.
C14_LogsKeepUp ==
    (logsObserved ~> (~logsObserved \/ C14_UpToDate)) /\ [][C14_DetachedStep]_vars

\* ===================================================== chart view properties

\* The view computed locally from the company list.
C15_LocalView(v) ==
    CASE v = "segmentation" -> marketSegmentation(cards)
      [] v = "company_scale" -> sizeBuckets(cards)
      [] v = "performance_matrix" -> performanceSeries(cards)
      [] v = "market_evolution" -> foundingTimeline(cards)

\* C15: each of the four chart views of a session is the backend's chart
\* when the snapshot carries charts, and the view computed locally from the
\* company list when it carries none.
C15_BackendElseLocal ==
    view \in SessionViews =>
        out = IF charts = "present" THEN ChartsPayload(view) ELSE C15_LocalView(view)

\* The bucket a company belongs to: its field, or the default label when the
\* field is missing, null or empty.
C16_Label(c, field, dflt) == IF Falsy(c[field]) THEN dflt ELSE c[field]

C16_Members(field, dflt, label) ==
    {j \in DOMAIN cards : C16_Label(cards[j], field, dflt) = label}

\* C16: in the segmentation and company-scale views every bucket carries a
\* number, the number of companies whose category (size bucket) is the
\* bucket's label, with missing fields counted under 'Uncategorized'
\* ('Unknown'); every company is counted in exactly one bucket.
C16_CountsAreRight ==
    /\ view = "inv_segmentation" =>
          /\ \A i \in DOMAIN out :
                /\ out[i].num
                /\ out[i].value = Cardinality(C16_Members("category", "Uncategorized", out[i].name))
          /\ \A j \in DOMAIN cards : \E i \in DOMAIN out :
                out[i].name = C16_Label(cards[j], "category", "Uncategorized")
          /\ \A i, k \in DOMAIN out : out[i].name = out[k].name => i = k
    /\ view = "inv_sizeBuckets" =>
          /\ \A i \in DOMAIN out :
                /\ out[i].num
                /\ out[i].count = Cardinality(C16_Members("size_bucket", "Unknown", out[i].label))
          /\ \A j \in DOMAIN cards : \E i \in DOMAIN out :
                out[i].label = C16_Label(cards[j], "size_bucket", "Unknown")
          /\ \A i, k \in DOMAIN out : out[i].label = out[k].label => i = k

\* Position in the list of the first company of a bucket.
C17_First(field, dflt, label) ==
    CHOOSE j \in C16_Members(field, dflt, label) :
        \A k \in C16_Members(field, dflt, label) : j <= k

\* C17: the buckets of the segmentation and company-scale views come in the
\* order in which their labels first occur in the company list.
C17_FirstOccurrenceOrder ==
    /\ view = "inv_segmentation" =>
          \A a, b \in DOMAIN out : a < b =>
              C17_First("category", "Uncategorized", out[a].name)
                  < C17_First("category", "Uncategorized", out[b].name)
    /\ view = "inv_sizeBuckets" =>
          \A a, b \in DOMAIN out : a < b =>
              C17_First("size_bucket", "Unknown", out[a].label)
                  < C17_First("size_bucket", "Unknown", out[b].label)

\* C18: the fallback score shown for a company is the score its name gets
\* when the company stands alone in a list, whatever its position, whatever
\* the other companies, and whichever page computes it.
C18_ScoreDependsOnNameOnly ==
    view \in {"inv_performance", "wiki_score"} =>
        \A i \in DOMAIN out : out[i].score = performanceSeries(<<[name |-> out[i].name]>>)[1].score

\* C19: every fallback score computed by computeScore(name, idx) is an
\* integer from 60 to 99.
C19_ScoreInRange ==
    view = "inv_performance" => \A i \in DOMAIN out : out[i].score \in 60..99

C19_Witness ==
    /\ view = "inv_performance"
    /\ Len(out) >= 3
    /\ \E i \in DOMAIN out : out[i].name = <<>>
    /\ \E i \in DOMAIN out : Len(out[i].name) = 2 /\ i > 1

\* A date string that yields a valid year.
C20_Valid(str) == ~Falsy(str) /\ Date_getFullYear(str) # NaN

\* The year of a company: of its first-discovered date when that is valid,
\* otherwise of its last-updated date when that is valid.
C20_Year(c) ==
    IF C20_Valid(c.first_discovered) THEN Date_getFullYear(c.first_discovered)
    ELSE IF C20_Valid(c.last_updated) THEN Date_getFullYear(c.last_updated)
    ELSE NaN

RECURSIVE C20_Points(_, _)
C20_Points(list, i) ==
    IF i > Len(list) THEN <<>>
    ELSE (IF C20_Year(list[i]) # NaN
          THEN <<[x |-> C20_Year(list[i]),
                  y |-> [num |-> computeScore(list[i].name, i - 1), den |-> 2],
                  z |-> 60 + (((i - 1) * 20) % 120),
                  name |-> list[i].name]>>
          ELSE <<>>) \o C20_Points(list, i + 1)

\* C20: the founding timeline has, in input order, one point (year, score/2,
\* synthetic size) for exactly the companies with a resolvable year, the year
\* taken from the first-discovered date when valid and else from the
\* last-updated date; companies without one yield no point.
C20_TimelineOfResolvableYears ==
    view = "inv_timeline" => out = C20_Points(cards, 1)

\* ======================================================= page properties

InvestigationViews == {"inv_segmentation", "inv_sizeBuckets", "inv_performance", "inv_timeline"}

C21_RerunStep ==
    (view' = view /\ view \in InvestigationViews /\ cards' = cards) => out' = out

C27_CardScoreIsPlottedScore ==
    view \in {"inv_cards", "inv_cards_filtered"} =>
        \A k \in DOMAIN out :
            /\ out[k].score = performanceSeries(cards)[out[k].at].score
            /\ ResolveYear(cards[out[k].at]) \notin {NaN, 0} =>
                   Head(TimelineFrom(cards, out[k].at)).y.num = out[k].score

\* The navigation after a successful start mounts the session page with the
\* fetch of the snapshot under way; the arrival of the first snapshot, when
\* it is not terminal, arms the poll timer of the page still attached.
C23_AttachStep ==
    /\ (handleSubmit_then /\ route = "home") => (route' = "session" /\ sessNet' # "none")
    /\ (/\ FetchSuccess
        /\ route = "session"
        /\ startReq = "none"
        /\ sessData = NoData
        /\ sessData' \in NonTerminal)
           => sessTimer'

\* C23: after a start has succeeded with the session's id, the session page
\* becomes attached to the session: its snapshot is fetched and polling
\* begins, with no further action of the user.
C23_StartAttachesConsumer == [][C23_AttachStep]_vars

C22_CacheWriteStep == listData' # listData => fetchSessions_resolve

\* C22: the cached session list is written only by the completion of a fetch
\* of its key; no operation of a consumer (rendering, sorting, filtering)
\* changes the cached value in place.
C22_OnlyFetchWritesCache == [][C22_CacheWriteStep]_vars

\* C25: a compare request is sent only with two or three company ids,
\* whatever the sequence of selections and clicks before it.
C25_CompareSendsTwoOrThree == compareSent \in {0, 2, 3}

C25_Witness ==
    /\ compareSent = 3
    /\ compareReq = "inflight"
    /\ Cardinality(selected) = 4

\* ================================================ legacy page properties

\* The step in which ResearchLab receives the answer that the job has failed.
C24_FailedStep ==
    (route = "lab" /\ jobData # "failed" /\ jobData' = "failed") => logLast' = JobErrorMessage

\* C24: when the backend reports the job as failed, the failure is shown to
\* the user with the error_message the backend gave, unchanged.
C24_FailureCarriesMessage == [][C24_FailedStep]_vars

\* The step in which ResearchLab's status-log effect leaves 'Research
\* completed' as the last entry of its logs.
C26_AppendStep ==
    (/\ route = "lab"
     /\ jobData' # jobData
     /\ jobData' # NoData
     /\ logLast' = "Research completed")
    => jobData' \in JobTerminal

\* C26: ResearchLab appends 'Research completed' only when the fetched job
\* is completed or failed, never while it is pending or running.
C26_CompletedOnlyWhenTerminal == [][C26_AppendStep]_vars

\* A run of handleStart is under way on the mounted Investigation page: from
\* its call until its finally block has run.
C28_InRun == route = "investigation" /\ ((lstart = "inflight" /\ lstartOwner) \/ hsRef > 0)

C28_RunStep ==
    (C28_InRun /\ route' = route /\ ~Investigation_handleStart)
        => (progress' >= progress /\ progress' \in 0..100)

\* C28: within one run of Investigation's handleStart the progress value
\* never decreases and stays within 0..100, however scripted-log ticks, the
\* start response, the refetch and job poll responses interleave.
C28_ProgressMonotone == [][C28_RunStep]_vars

\* The step in which the start request of a mounted page fails.
C29_FailedStartStep ==
    (handleStart_rejected /\ lstartOwner)
        => /\ jobId' = jobId
           /\ jobIntervals' = jobIntervals
           /\ jobTimer' = jobTimer
           /\ jobData' = jobData
           /\ jobCalls' = jobCalls
           /\ lstart' = "none"
           /\ ~isAnimating'
           /\ logLast' = "error.message"

\* C29: when a start request fails, the tracked job id is unchanged, no
\* poller is created and the poller of the job tracked before stays as it
\* is, the in-progress flag is cleared and the error's message is the last
\* entry of the visible log.
C29_FailedStartKeepsJob == [][C29_FailedStartStep]_vars

C29_Witness ==
    /\ route = "investigation"
    /\ logLast = "error.message"
    /\ jobId = 1
    /\ jobIntervals = {1}
    /\ lstart = "none"
    /\ ~isAnimating

\* C30: a mounted page holds at most one job polling interval, none while
\* it has no job id, and the interval it holds was created for the job id
\* it tracks now: the interval of the job tracked before is cleared when the
\* id changes.
C30_OnePollTimer ==
    /\ Cardinality(jobIntervals) <= 1
    /\ jobIntervals \subseteq {jobId}
    /\ jobId <= 0 => jobIntervals = {}
    /\ jobTimer = (jobIntervals # {})

C30_Witness ==
    /\ route \in LegacyPages
    /\ jobId = 2
    /\ jobIntervals = {2}
    /\ jobCalls # <<>>

====
